---- MODULE Spec2Model ----
(***************************************************************************)
(* Model of the test-pattern coverage store of vscode-jest-vis             *)
(* (TestPatternsCoverageMapProvider) and of the per-line scoring of        *)
(* AbstractFormatter.lineCoverages.                                        *)
(*                                                                         *)
(* JavaScript values are represented as follows.                           *)
(*   Map<K,V>        a function whose DOMAIN is the set of keys            *)
(*   Set<string>     a duplicate-free sequence (insertion order)           *)
(*   T | undefined   <<>> for undefined, <<x>> for the value x             *)
(*   number          see the section "IEEE-754 arithmetic" below           *)
(***************************************************************************)
EXTENDS Integers, Sequences, FiniteSets, Bags, TLC

(***************************************************************************)
(* Bounds                                                                  *)
(***************************************************************************)
\* number of update() calls that may be suspended at the await at one time
MaxInFlight == 2

\* line count of the documents that are scored
MaxLine == 20

\* test-pattern identities reported to the store
TestPatterns == {"A", "B"}

\* files that occur in coverage reports
Files == {"f", "g"}

\* file paths that are queried; "h" never occurs in a report
QueryFiles == Files \cup {"h"}

(***************************************************************************)
(* Optional values and maps                                                *)
(***************************************************************************)
Undefined == <<>>

Some(x) == <<x>>

EmptyMap == <<>>

\* Map.prototype.get
MapGet(m, k) == IF k \in DOMAIN m THEN Some(m[k]) ELSE Undefined

\* MapSet with a fault: the other keys are dropped
MapSetAlone(m, k, v) == [x \in {k} |-> v]

\* Map.prototype.set, and obj[k] = v
MapSet(m, k, v) == [x \in (DOMAIN m) \cup {k} |-> IF x = k THEN v ELSE m[x]]

Range(s) == {s[i] : i \in DOMAIN s}

\* SetAdd with a fault: the element is added even when it is already there
SetAddAgain(s, x) == Append(s, x)

\* Set.prototype.add
SetAdd(s, x) == IF x \in Range(s) THEN s ELSE Append(s, x)

(***************************************************************************)
(* Coverage data (the istanbul per-file schema): fnMap[k].decl is the line *)
(* range of a function declaration and f[k] its hit count; branchMap[k]    *)
(* gives the line of a branch and b[k] the hit counts of its arms;         *)
(* statementMap[k] gives the start line of a statement and s[k] its hit    *)
(* count.                                                                  *)
(***************************************************************************)
\* statements on lines 10 and 20 are hit; a hit function declared on line 15
covA ==
  [fnMap |-> << [start |-> 15, end |-> 15] >>, f |-> << 3 >>,
   branchMap |-> << [line |-> 16] >>, b |-> << <<2, 1>> >>,
   statementMap |-> << [line |-> 10], [line |-> 20], [line |-> 15] >>,
   s |-> << 2, 1, 3 >>]

\* line 10 is hit, line 20 is not; line 15 carries a function with hit count
\* 0 and a statement with hit count 5; the branch on line 16 is partly
\* taken, the one on line 17 not at all
covB ==
  [fnMap |-> << [start |-> 15, end |-> 15] >>, f |-> << 0 >>,
   branchMap |-> << [line |-> 16], [line |-> 17] >>, b |-> << <<1, 0>>, <<0, 0>> >>,
   statementMap |-> << [line |-> 10], [line |-> 20], [line |-> 15] >>,
   s |-> << 1, 0, 5 >>]

\* the `obj' arguments of update: absent, or a coverage map
CoverageInputs ==
  { Undefined,
    Some([x \in {"f"} |-> covA]),
    Some([x \in {"f"} |-> covB]),
    Some([x \in {"f", "g"} |-> IF x = "f" THEN covB ELSE covA]) }

\* the reports of overlapping updates always carry coverage
ConcurrentInputs == CoverageInputs \ {Undefined}

\* the reports that are scored cover file "f"
ScoringInputs == {Some([x \in {"f"} |-> covA]), Some([x \in {"f"} |-> covB])}

(***************************************************************************)
(* State                                                                   *)
(***************************************************************************)
VARIABLES
  fileNameToTestPatterns, \* Map<string, Set<string>>
  testPatternsToIsPass,   \* Map<string, boolean>
  testPatternsToMap,      \* Map<string, CoverageMap>
  pending,                \* the update() calls suspended at the await (a bag)
  reports,                \* history: completed updates per pattern since reset
  returned,               \* history: the last operation, what it was given
                          \* and what it returned
  serial,                 \* reference: the store that the updates called so far
                          \* give when each runs to its end before the next
  lastUpdate,             \* reference: the update called last since the reset,
                          \* the verdict it found, and whether it has completed
  laterFiles,             \* reference: per pattern, the files reported by the
                          \* updates that completed since the reset, the
                          \* pattern's first such update left out
  overlapping,            \* reference: the calls of update, at most two, made
                          \* since an update was last called with none suspended
  fileNameToRun,          \* DebugConfigurationProvider.fileNameToRun
  testToRun,              \* DebugConfigurationProvider.testToRun
  debugRuns               \* reference: the arguments of the last prepareTestRun
                          \* and the number of resolved configurations that
                          \* got arguments appended since

store == <<fileNameToTestPatterns, testPatternsToIsPass, testPatternsToMap>>

\* the reference variables, which only the specifications that compare the
\* store with them keep up to date
references == <<serial, lastUpdate, laterFiles, overlapping, debugRuns>>

\* the fields of the debug configuration provider
debugProvider == <<fileNameToRun, testToRun>>

\* what the operations of the coverage store and of the scoring leave alone
others == <<debugProvider, references>>

vars == <<fileNameToTestPatterns, testPatternsToIsPass, testPatternsToMap,
          pending, reports, returned, debugProvider, references>>

\* the largest tally and the largest total that the score is computed for
MaxRuns == 3

\* the largest value of the saturating counter `reports'
MaxReports == 2

(***************************************************************************)
(* istanbul-lib-coverage / istanbul-lib-source-maps                        *)
(***************************************************************************)
\* createCoverageMap(obj): an absent obj gives an empty coverage map
createCoverageMap(obj) == IF obj = Undefined THEN EmptyMap ELSE obj[1]

\* mapStore.transformCoverage(map): no source map is ever registered with
\* the store and the reports carry no inputSourceMap, in which case the
\* library resolves to the coverage map it was given
transformCoverage(map) == map

\* files with a fault: no file is listed
filesNone(map) == {}

\* CoverageMap.files()
files(map) == DOMAIN map

(***************************************************************************)
(* TestPatternsCoverageMapProvider                                         *)
(***************************************************************************)
\* HasMap with a fault: every report is treated as a subsequent one
HasMapAlways(tpToMap, testPattern) == TRUE

\* the truthiness test `this._testPatternsToMap.get(testPattern)'
HasMap(tpToMap, testPattern) == MapGet(tpToMap, testPattern) # Undefined

\* setFileCoverage with a fault: a file that already has coverage keeps it
setFileCoverageKeepsOld(tpToMap, testPattern, filePath, map) ==
  IF testPattern \in DOMAIN tpToMap /\ filePath \in DOMAIN tpToMap[testPattern]
  THEN tpToMap
  ELSE MapSet(tpToMap, testPattern,
              MapSet(IF testPattern \in DOMAIN tpToMap THEN tpToMap[testPattern] ELSE EmptyMap,
                     filePath, map[filePath]))

\* setFileCoverage with a fault: the map is created if missing, and the
\* file's coverage is not written
setFileCoverageSkips(tpToMap, testPattern, filePath, map) ==
  IF MapGet(tpToMap, testPattern) = Undefined
  THEN MapSet(tpToMap, testPattern, EmptyMap)
  ELSE tpToMap

setFileCoverage(tpToMap, testPattern, filePath, map) ==
  LET ensured == IF MapGet(tpToMap, testPattern) = Undefined
                 THEN MapSet(tpToMap, testPattern, EmptyMap)
                 ELSE tpToMap
  IN MapSet(ensured, testPattern,
            MapSet(ensured[testPattern], filePath, map[filePath]))

\* AddToIndex with a fault: the pattern replaces the file's set
AddToIndexReplaces(index, fileName, testPattern) ==
  MapSet(index, fileName, << testPattern >>)

\* lines 52-54: add the pattern to the file's set, creating the set if needed
AddToIndex(index, fileName, testPattern) ==
  LET fileNameToTestPatternSet == MapGet(index, fileName)
  IN IF fileNameToTestPatternSet # Undefined
     THEN MapSet(index, fileName, SetAdd(fileNameToTestPatternSet[1], testPattern))
     ELSE MapSet(index, fileName, << testPattern >>)

\* transformed.files().forEach(...) of lines 51-56, over the files `todo';
\* st is the pair <<index, tpToMap>>
RECURSIVE MergeFiles(_, _, _, _)
MergeFiles(st, testPattern, transformed, todo) ==
  IF todo = {} THEN st
  ELSE LET fileName == CHOOSE x \in todo : TRUE
           next == << AddToIndex(st[1], fileName, testPattern),
                      setFileCoverage(st[2], testPattern, fileName, transformed) >>
       IN MergeFiles(next, testPattern, transformed, todo \ {fileName})

getTestPatternIsPass(testPattern) == MapGet(testPatternsToIsPass, testPattern)

getTestPatternFileCoverage(testPattern, filePath) ==
  LET fileCoverage == MapGet(testPatternsToMap, testPattern)
  IN IF fileCoverage # Undefined
     THEN MapGet(fileCoverage[1], filePath)
     ELSE Undefined

getFileCoverages(filePath) ==
  LET got == MapGet(fileNameToTestPatterns, filePath)
      testPatternSet == IF got # Undefined THEN got[1] ELSE << >>
  IN [i \in DOMAIN testPatternSet |->
        [fileCoverage |-> getTestPatternFileCoverage(testPatternSet[i], filePath),
         testPattern |-> testPatternSet[i],
         isPass |-> getTestPatternIsPass(testPatternSet[i])]]

\* the two counters of getSummary, before they are formatted
getSummary(filePath) ==
  LET cs == getFileCoverages(filePath)
  IN [numOfPassTests |-> Cardinality({i \in DOMAIN cs : cs[i].isPass = Some(TRUE)}),
      numOfFailedTests |-> Cardinality({i \in DOMAIN cs : cs[i].isPass = Some(FALSE)})]

(***************************************************************************)
(* IEEE-754 arithmetic on the non-negative numbers the scoring formula     *)
(* meets: a number is NaN, +Infinity or a finite value, and a finite value *)
(* is kept as a reduced fraction num/den (exact, where binary64 rounds).   *)
(***************************************************************************)
NaN == [kind |-> "NaN", num |-> 0, den |-> 0]

Infinity == [kind |-> "Infinity", num |-> 1, den |-> 0]

RECURSIVE GCD(_, _)
GCD(a, b) == IF b = 0 THEN a ELSE GCD(b, a % b)

Fraction(n, d) ==
  LET g == GCD(n, d) IN [kind |-> "finite", num |-> n \div g, den |-> d \div g]

Number(n) == Fraction(n, 1)

\* Div with a fault: the quotient of two finite numbers is truncated
DivTruncated(x, y) ==
  IF x.kind = "NaN" \/ y.kind = "NaN" THEN NaN
  ELSE IF x.kind = "Infinity"
       THEN IF y.kind = "Infinity" THEN NaN ELSE Infinity
  ELSE IF y.kind = "Infinity" THEN Number(0)
  ELSE IF y.num = 0
       THEN IF x.num = 0 THEN NaN ELSE Infinity
  ELSE Fraction((x.num * y.den) \div (x.den * y.num), 1)

\* x / y
Div(x, y) ==
  IF x.kind = "NaN" \/ y.kind = "NaN" THEN NaN
  ELSE IF x.kind = "Infinity"
       THEN IF y.kind = "Infinity" THEN NaN ELSE Infinity
  ELSE IF y.kind = "Infinity" THEN Number(0)
  ELSE IF y.num = 0
       THEN IF x.num = 0 THEN NaN ELSE Infinity
  ELSE Fraction(x.num * y.den, x.den * y.num)

\* x + y
Add(x, y) ==
  IF x.kind = "NaN" \/ y.kind = "NaN" THEN NaN
  ELSE IF x.kind = "Infinity" \/ y.kind = "Infinity" THEN Infinity
  ELSE Fraction(x.num * y.den + y.num * x.den, x.den * y.den)

\* x <= y, false when either is NaN
Leq(x, y) ==
  /\ x.kind # "NaN" /\ y.kind # "NaN"
  /\ \/ y.kind = "Infinity"
     \/ x.kind = "finite" /\ y.kind = "finite" /\ x.num * y.den <= y.num * x.den

(***************************************************************************)
(* FileCoverage (istanbul-lib-coverage), as used by lineCoverages          *)
(***************************************************************************)
Max(S) == CHOOSE x \in S : \A y \in S : y <= x

\* FileCoverage.getLineCoverage(): per start line, the largest hit count of
\* the statements starting there
getLineCoverage(fc) ==
  LET lines == {fc.statementMap[k].line : k \in DOMAIN fc.statementMap}
  IN [l \in lines |->
        Max({fc.s[k] : k \in {j \in DOMAIN fc.statementMap : fc.statementMap[j].line = l}})]

\* FileCoverage.getBranchCoverageByLine(): per line, the arms of all branches
\* on it, how many were taken, and coverage = covered / total * 100
getBranchCoverageByLine(fc) ==
  LET lines == {fc.branchMap[k].line : k \in DOMAIN fc.branchMap}
      arms(l) == UNION {{<<k, i>> : i \in DOMAIN fc.b[k]} :
                          k \in {j \in DOMAIN fc.branchMap : fc.branchMap[j].line = l}}
      covered(l) == Cardinality({a \in arms(l) : fc.b[a[1]][a[2]] > 0})
  IN [l \in lines |->
        [covered |-> covered(l), total |-> Cardinality(arms(l)),
         coverage |-> Div(Number(covered(l) * 100), Number(Cardinality(arms(l))))]]

(***************************************************************************)
(* AbstractFormatter                                                       *)
(***************************************************************************)
CoverageStatus == {"covered", "partially-covered", "uncovered"}

\* getFunctionCoverageByLine: every line of a declaration gets the hit count
\* of the function, a later function overwriting an earlier one
RECURSIVE getFunctionCoverageByLineFrom(_, _, _)
getFunctionCoverageByLineFrom(fileCoverage, k, lineCoverage) ==
  IF k > Len(fileCoverage.fnMap) THEN lineCoverage
  ELSE LET decl == fileCoverage.fnMap[k]
           hits == fileCoverage.f[k]
           span == decl.start .. decl.end
       IN getFunctionCoverageByLineFrom(fileCoverage, k + 1,
            [idx \in (DOMAIN lineCoverage) \cup span |->
               IF idx \in span THEN hits ELSE lineCoverage[idx]])

getFunctionCoverageByLine(fileCoverage) ==
  getFunctionCoverageByLineFrom(fileCoverage, 1, EmptyMap)

\* CompareStatus with a fault: the results for 'covered' and 'uncovered' swapped
CompareStatusSwapped(s1, s2) ==
  IF s1 = s2 THEN 0
  ELSE CASE s1 = "covered" -> -1
         [] s1 = "partially-covered" -> (IF s2 = "covered" THEN -1 ELSE 1)
         [] s1 = "uncovered" -> 1

\* the comparator handed to statusList.sort, lines 88-100
CompareStatus(s1, s2) ==
  IF s1 = s2 THEN 0
  ELSE CASE s1 = "covered" -> 1
         [] s1 = "partially-covered" -> (IF s2 = "covered" THEN -1 ELSE 1)
         [] s1 = "uncovered" -> -1

\* Array.prototype.sort (stable): insertion of x into a sorted list
RECURSIVE InsertSorted(_, _)
InsertSorted(sorted, x) ==
  IF sorted = << >> THEN << x >>
  ELSE IF CompareStatus(x, Head(sorted)) < 0 THEN << x >> \o sorted
  ELSE << Head(sorted) >> \o InsertSorted(Tail(sorted), x)

RECURSIVE SortStatusList(_)
SortStatusList(list) ==
  IF list = << >> THEN << >>
  ELSE InsertSorted(SortStatusList(SubSeq(list, 1, Len(list) - 1)), list[Len(list)])

\* CheckedStatusList with a fault: branches that are taken in part push
\* 'partially-covered'
CheckedStatusListGraded(fileCoverage, line) ==
  LET lc == MapGet(getLineCoverage(fileCoverage), line)
      bc == MapGet(getBranchCoverageByLine(fileCoverage), line)
      fc == MapGet(getFunctionCoverageByLine(fileCoverage), line)
  IN (IF fc # Undefined
      THEN << IF fc[1] > 0 THEN "covered" ELSE "uncovered" >> ELSE << >>)
     \o (IF bc # Undefined
         THEN << IF bc[1].coverage = Number(0) THEN "uncovered"
                 ELSE IF bc[1].coverage = Number(100) THEN "covered"
                 ELSE "partially-covered" >>
         ELSE << >>)
     \o (IF lc # Undefined
         THEN << IF lc[1] > 0 THEN "covered" ELSE "uncovered" >> ELSE << >>)

\* lines 64-80: the statuses the function, branch and statement checks push
CheckedStatusList(fileCoverage, line) ==
  LET lc == MapGet(getLineCoverage(fileCoverage), line)
      bc == MapGet(getBranchCoverageByLine(fileCoverage), line)
      fc == MapGet(getFunctionCoverageByLine(fileCoverage), line)
  IN (IF fc # Undefined
      THEN << IF fc[1] > 0 THEN "covered" ELSE "uncovered" >> ELSE << >>)
     \o (IF bc # Undefined
         THEN << IF bc[1].coverage = Number(0) THEN "uncovered" ELSE "covered" >>
         ELSE << >>)
     \o (IF lc # Undefined
         THEN << IF lc[1] > 0 THEN "covered" ELSE "uncovered" >> ELSE << >>)

\* lines 81-86: the fallbacks for an empty list
WithFallback(statusList, onNoCoverageInfo) ==
  LET withPolicy == IF Len(statusList) <= 0 /\ onNoCoverageInfo # Undefined
                    THEN Append(statusList, onNoCoverageInfo[1])
                    ELSE statusList
  IN IF Len(withPolicy) <= 0 THEN Append(withPolicy, "uncovered") ELSE withPolicy

\* lines 87-101: sort by severity and take the first
ResolveStatus(statusList) == SortStatusList(statusList)[1]

\* the status of one entry at one line
LineStatus(fileCoverage, line, onNoCoverageInfo) ==
  ResolveStatus(WithFallback(CheckedStatusList(fileCoverage, line), onNoCoverageInfo))

\* Hue with a fault: the pass ratio is divided by the fail ratio alone
HueByFailRatio(numOfPassTests, numOfFailedTests, totalSuccess, totalFailed) ==
  Div(Div(Number(numOfPassTests), Number(totalSuccess)),
      Div(Number(numOfFailedTests), Number(totalFailed)))

\* lines 119-125
Hue(numOfPassTests, numOfFailedTests, totalSuccess, totalFailed) ==
  Div(Div(Number(numOfPassTests), Number(totalSuccess)),
      Add(Div(Number(numOfPassTests), Number(totalSuccess)),
          Div(Number(numOfFailedTests), Number(totalFailed))))

\* LineTally with a fault: isCovered tests >= 0 in place of > 0
LineTallyNonNegative(fileCoverages, line, onNoCoverageInfo) ==
  LET counted == {i \in DOMAIN fileCoverages :
                    /\ fileCoverages[i].fileCoverage # Undefined
                    /\ LineStatus(fileCoverages[i].fileCoverage[1], line,
                                  onNoCoverageInfo) = "covered"}
      numOfPassTests ==
        Cardinality({i \in counted : fileCoverages[i].isPass = Some(TRUE)})
      numOfFailedTests ==
        Cardinality({i \in counted : fileCoverages[i].isPass # Some(TRUE)})
  IN [numOfFailedTests |-> numOfFailedTests,
      numOfPassTests |-> numOfPassTests,
      isCovered |-> numOfFailedTests + numOfPassTests >= 0]

\* lines 53-113 for one line: the tallies over the entries
LineTally(fileCoverages, line, onNoCoverageInfo) ==
  LET counted == {i \in DOMAIN fileCoverages :
                    /\ fileCoverages[i].fileCoverage # Undefined
                    /\ LineStatus(fileCoverages[i].fileCoverage[1], line,
                                  onNoCoverageInfo) = "covered"}
      numOfPassTests ==
        Cardinality({i \in counted : fileCoverages[i].isPass = Some(TRUE)})
      numOfFailedTests ==
        Cardinality({i \in counted : fileCoverages[i].isPass # Some(TRUE)})
  IN [numOfFailedTests |-> numOfFailedTests,
      numOfPassTests |-> numOfPassTests,
      isCovered |-> numOfFailedTests + numOfPassTests > 0]

\* lineCoverages with a fault: the hue is computed for uncovered lines too
lineCoveragesAlwaysHue(fileName, lineCount, onNoCoverageInfo) ==
  LET fileCoverages == getFileCoverages(fileName)
      totalSuccess ==
        Cardinality({i \in DOMAIN fileCoverages : fileCoverages[i].isPass = Some(TRUE)})
      totalFailed ==
        Cardinality({i \in DOMAIN fileCoverages : fileCoverages[i].isPass = Some(FALSE)})
  IN [line \in 1..lineCount |->
        LET currentHue == LineTally(fileCoverages, line, onNoCoverageInfo)
        IN [numOfFailedTests |-> currentHue.numOfFailedTests,
            numOfPassTests |-> currentHue.numOfPassTests,
            isCovered |-> currentHue.isCovered,
            hue |-> Some(Hue(currentHue.numOfPassTests, currentHue.numOfFailedTests,
                             totalSuccess, totalFailed))]]

\* lineCoverages(editor, onNoCoverageInfo), with editor.document.fileName and
\* editor.document.lineCount as fileName and lineCount
lineCoverages(fileName, lineCount, onNoCoverageInfo) ==
  LET fileCoverages == getFileCoverages(fileName)
      totalSuccess ==
        Cardinality({i \in DOMAIN fileCoverages : fileCoverages[i].isPass = Some(TRUE)})
      totalFailed ==
        Cardinality({i \in DOMAIN fileCoverages : fileCoverages[i].isPass = Some(FALSE)})
  IN [line \in 1..lineCount |->
        LET currentHue == LineTally(fileCoverages, line, onNoCoverageInfo)
        IN [numOfFailedTests |-> currentHue.numOfFailedTests,
            numOfPassTests |-> currentHue.numOfPassTests,
            isCovered |-> currentHue.isCovered,
            hue |-> IF currentHue.isCovered
                    THEN Some(Hue(currentHue.numOfPassTests, currentHue.numOfFailedTests,
                                  totalSuccess, totalFailed))
                    ELSE Undefined]]

(***************************************************************************)
(* Operations                                                              *)
(***************************************************************************)
\* the line counts of the scored documents
LineCounts == {0, 1, MaxLine}

\* the documents that are scored
ScoredFiles == {"f", "h"}

\* the optional onNoCoverageInfo callback of lineCoverages, by what it returns
NoCoverageInfoPolicies == {Undefined} \cup {Some(status) : status \in CoverageStatus}

Init ==
  /\ fileNameToTestPatterns = EmptyMap
  /\ testPatternsToIsPass = EmptyMap
  /\ testPatternsToMap = EmptyMap
  /\ pending = EmptyBag
  /\ reports = [p \in TestPatterns |-> 0]
  /\ returned = [op |-> "constructor"]
  /\ serial = [isPass |-> EmptyMap, index |-> EmptyMap, map |-> EmptyMap]
  /\ lastUpdate = Undefined
  /\ laterFiles = [p \in TestPatterns |-> {}]
  /\ overlapping = << >>
  /\ fileNameToRun = ""
  /\ testToRun = ""
  /\ debugRuns = [prepared |-> Undefined, appended |-> 0]

\* Reset with a fault: the verdicts survive
ResetKeepsVerdicts ==
  /\ fileNameToTestPatterns' = EmptyMap
  /\ testPatternsToMap' = EmptyMap
  /\ reports' = [p \in TestPatterns |-> 0]
  /\ returned' = [op |-> "reset"]
  /\ UNCHANGED <<testPatternsToIsPass, pending>>

\* Reset with a fault: the reverse index survives
ResetKeepsIndex ==
  /\ testPatternsToIsPass' = EmptyMap
  /\ testPatternsToMap' = EmptyMap
  /\ reports' = [p \in TestPatterns |-> 0]
  /\ returned' = [op |-> "reset"]
  /\ UNCHANGED <<fileNameToTestPatterns, pending>>

\* reset(), lines 30-36; an update suspended at its await stays suspended
Reset ==
  /\ fileNameToTestPatterns' = EmptyMap
  /\ testPatternsToIsPass' = EmptyMap
  /\ testPatternsToMap' = EmptyMap
  /\ reports' = [p \in TestPatterns |-> 0]
  /\ returned' = [op |-> "reset"]
  /\ UNCHANGED pending

\* UpdateCall with a fault: a verdict already recorded is kept
UpdateCallKeepsVerdict(testPattern, isPass, obj) ==
  /\ BagCardinality(pending) < MaxInFlight
  /\ testPatternsToIsPass' =
       IF testPattern \in DOMAIN testPatternsToIsPass
       THEN testPatternsToIsPass
       ELSE MapSet(testPatternsToIsPass, testPattern, isPass)
  /\ LET map == createCoverageMap(obj)
     IN pending' = pending (+) SetToBag({[testPattern |-> testPattern,
                                           transformed |-> transformCoverage(map)]})
  /\ returned' = [op |-> "updateCall", testPattern |-> testPattern, isPass |-> isPass,
                  was |-> getTestPatternIsPass(testPattern)]
  /\ UNCHANGED <<fileNameToTestPatterns, testPatternsToMap, reports>>

\* update(), lines 47-49: up to the await of transformCoverage
UpdateCall(testPattern, isPass, obj) ==
  /\ BagCardinality(pending) < MaxInFlight
  /\ testPatternsToIsPass' = MapSet(testPatternsToIsPass, testPattern, isPass)
  /\ LET map == createCoverageMap(obj)
     IN pending' = pending (+) SetToBag({[testPattern |-> testPattern,
                                           transformed |-> transformCoverage(map)]})
  /\ returned' = [op |-> "updateCall", testPattern |-> testPattern, isPass |-> isPass,
                  was |-> getTestPatternIsPass(testPattern)]
  /\ UNCHANGED <<fileNameToTestPatterns, testPatternsToMap, reports>>

\* UpdateResume with a fault: a later report registers the pattern for its
\* files and leaves the stored coverage as it was
UpdateResumeKeepsCoverage(u) ==
  /\ BagIn(u, pending)
  /\ LET testPattern == u.testPattern
         transformed == u.transformed
     IN /\ IF HasMap(testPatternsToMap, testPattern)
           THEN LET merged == MergeFiles(<<fileNameToTestPatterns, testPatternsToMap>>,
                                         testPattern, transformed, files(transformed))
                IN /\ fileNameToTestPatterns' = merged[1]
                   /\ UNCHANGED testPatternsToMap
           ELSE /\ testPatternsToMap' = MapSet(testPatternsToMap, testPattern, transformed)
                /\ UNCHANGED fileNameToTestPatterns
        /\ reports' = [reports EXCEPT ![testPattern] =
                         IF @ < MaxReports THEN @ + 1 ELSE @]
        /\ returned' = [op |-> "update", testPattern |-> testPattern,
                        transformed |-> transformed,
                        was |-> MapGet(testPatternsToMap, testPattern)]
  /\ pending' = pending (-) SetToBag({u})
  /\ UNCHANGED testPatternsToIsPass

\* update(), lines 50-59: the suspended call u resumes after the await
UpdateResume(u) ==
  /\ BagIn(u, pending)
  /\ LET testPattern == u.testPattern
         transformed == u.transformed
     IN /\ IF HasMap(testPatternsToMap, testPattern)
           THEN LET merged == MergeFiles(<<fileNameToTestPatterns, testPatternsToMap>>,
                                         testPattern, transformed, files(transformed))
                IN /\ fileNameToTestPatterns' = merged[1]
                   /\ testPatternsToMap' = merged[2]
           ELSE /\ testPatternsToMap' = MapSet(testPatternsToMap, testPattern, transformed)
                /\ UNCHANGED fileNameToTestPatterns
        /\ reports' = [reports EXCEPT ![testPattern] =
                         IF @ < MaxReports THEN @ + 1 ELSE @]
        /\ returned' = [op |-> "update", testPattern |-> testPattern,
                        transformed |-> transformed,
                        was |-> MapGet(testPatternsToMap, testPattern)]
  /\ pending' = pending (-) SetToBag({u})
  /\ UNCHANGED testPatternsToIsPass

\* GetFileCoverages with a fault: a missing set is created in the index
GetFileCoveragesCreatesSet(filePath) ==
  /\ returned' = [op |-> "getFileCoverages", filePath |-> filePath,
                  value |-> getFileCoverages(filePath)]
  /\ fileNameToTestPatterns' =
       IF filePath \in DOMAIN fileNameToTestPatterns
       THEN fileNameToTestPatterns
       ELSE MapSet(fileNameToTestPatterns, filePath, << >>)
  /\ UNCHANGED <<testPatternsToIsPass, testPatternsToMap, pending, reports>>

\* getFileCoverages(filePath), lines 79-88
GetFileCoverages(filePath) ==
  /\ returned' = [op |-> "getFileCoverages", filePath |-> filePath,
                  value |-> getFileCoverages(filePath)]
  /\ UNCHANGED <<fileNameToTestPatterns, testPatternsToIsPass, testPatternsToMap,
                 pending, reports>>

\* getSummary(filePath), lines 62-70
GetSummary(filePath) ==
  /\ returned' = [op |-> "getSummary", filePath |-> filePath,
                  value |-> getSummary(filePath)]
  /\ UNCHANGED <<fileNameToTestPatterns, testPatternsToIsPass, testPatternsToMap,
                 pending, reports>>

\* getTestPatternIsPass(testPattern), lines 99-102
GetTestPatternIsPass(testPattern) ==
  /\ returned' = [op |-> "getTestPatternIsPass", testPattern |-> testPattern,
                  value |-> getTestPatternIsPass(testPattern)]
  /\ UNCHANGED <<fileNameToTestPatterns, testPatternsToIsPass, testPatternsToMap,
                 pending, reports>>

\* LineCoverages with a fault: scoring a file drops the file's index entry
LineCoveragesConsumes(fileName, lineCount, onNoCoverageInfo) ==
  /\ returned' = [op |-> "lineCoverages", fileName |-> fileName,
                  lineCount |-> lineCount, onNoCoverageInfo |-> onNoCoverageInfo,
                  value |-> lineCoverages(fileName, lineCount, onNoCoverageInfo)]
  /\ fileNameToTestPatterns' =
       [f \in DOMAIN fileNameToTestPatterns \ {fileName} |-> fileNameToTestPatterns[f]]
  /\ UNCHANGED <<testPatternsToIsPass, testPatternsToMap, pending, reports>>

\* lineCoverages(editor, onNoCoverageInfo)
LineCoverages(fileName, lineCount, onNoCoverageInfo) ==
  /\ returned' = [op |-> "lineCoverages", fileName |-> fileName,
                  lineCount |-> lineCount, onNoCoverageInfo |-> onNoCoverageInfo,
                  value |-> lineCoverages(fileName, lineCount, onNoCoverageInfo)]
  /\ UNCHANGED <<fileNameToTestPatterns, testPatternsToIsPass, testPatternsToMap,
                 pending, reports>>

(***************************************************************************)
(* Specifications                                                          *)
(***************************************************************************)
\* the host awaits every update before it issues the next one; resets and
\* the store's queries may run while the update is suspended
Next ==
  \/ Reset /\ UNCHANGED others
  \/ /\ pending = EmptyBag
     /\ \E testPattern \in TestPatterns, isPass \in BOOLEAN, obj \in CoverageInputs :
          UpdateCall(testPattern, isPass, obj)
     /\ UNCHANGED others
  \/ \E u \in BagToSet(pending) : UpdateResume(u) /\ UNCHANGED others
  \/ \E filePath \in QueryFiles : GetFileCoverages(filePath) /\ UNCHANGED others
  \/ \E filePath \in QueryFiles : GetSummary(filePath) /\ UNCHANGED others
  \/ \E testPattern \in TestPatterns :
        GetTestPatternIsPass(testPattern) /\ UNCHANGED others

Spec == Init /\ [][Next]_vars

\* update calls overlap: up to MaxInFlight of them are suspended at a time
NextConcurrent ==
  \/ Reset /\ UNCHANGED others
  \/ \E testPattern \in TestPatterns, isPass \in BOOLEAN, obj \in ConcurrentInputs :
        UpdateCall(testPattern, isPass, obj) /\ UNCHANGED others
  \/ \E u \in BagToSet(pending) : UpdateResume(u) /\ UNCHANGED others

SpecConcurrent == Init /\ [][NextConcurrent]_vars

\* awaited updates that report on file "f", resets, scoring requests and the
\* store's queries on the scored files
NextScoring ==
  \/ Reset /\ UNCHANGED others
  \/ /\ pending = EmptyBag
     /\ \E testPattern \in TestPatterns, isPass \in BOOLEAN, obj \in ScoringInputs :
          UpdateCall(testPattern, isPass, obj)
     /\ UNCHANGED others
  \/ \E u \in BagToSet(pending) : UpdateResume(u) /\ UNCHANGED others
  \/ \E fileName \in ScoredFiles, lineCount \in LineCounts,
        onNoCoverageInfo \in NoCoverageInfoPolicies :
          LineCoverages(fileName, lineCount, onNoCoverageInfo) /\ UNCHANGED others
  \/ \E filePath \in ScoredFiles : GetFileCoverages(filePath) /\ UNCHANGED others
  \/ \E filePath \in ScoredFiles : GetSummary(filePath) /\ UNCHANGED others

SpecScoring == Init /\ [][NextScoring]_vars

\* update(testPattern, isPass, obj) run from its call to its end with nothing
\* in between, on the store st (lines 42-60)
UpdateAwaited(st, testPattern, isPass, obj) ==
  LET transformed == transformCoverage(createCoverageMap(obj))
      merged == MergeFiles(<<st.index, st.map>>, testPattern, transformed,
                           files(transformed))
  IN IF HasMap(st.map, testPattern)
     THEN [isPass |-> MapSet(st.isPass, testPattern, isPass),
           index |-> merged[1],
           map |-> merged[2]]
     ELSE [isPass |-> MapSet(st.isPass, testPattern, isPass),
           index |-> st.index,
           map |-> MapSet(st.map, testPattern, transformed)]

\* the patterns with an update suspended at its await
Suspended == {u.testPattern : u \in BagToSet(pending)}

\* updates overlap, but never two of the same pattern, and reset runs when no
\* update is suspended; `serial' runs each update to its end when it is called
NextDistinct ==
  \/ /\ pending = EmptyBag
     /\ Reset
     /\ serial' = [isPass |-> EmptyMap, index |-> EmptyMap, map |-> EmptyMap]
     /\ UNCHANGED <<lastUpdate, laterFiles, overlapping, debugProvider, debugRuns>>
  \/ \E testPattern \in TestPatterns \ Suspended, isPass \in BOOLEAN,
        obj \in CoverageInputs :
        /\ UpdateCall(testPattern, isPass, obj)
        /\ serial' = UpdateAwaited(serial, testPattern, isPass, obj)
        /\ UNCHANGED <<lastUpdate, laterFiles, overlapping, debugProvider, debugRuns>>
  \/ \E u \in BagToSet(pending) : UpdateResume(u) /\ UNCHANGED others

SpecDistinct == Init /\ [][NextDistinct]_vars

\* the document that is scored while an update is suspended
ReadFiles == {"f"}

\* awaited updates, resets, and reads of the store that may run while the
\* update is suspended; `lastUpdate' follows the update called last
NextReads ==
  \/ /\ Reset
     /\ lastUpdate' = Undefined
     /\ UNCHANGED <<serial, laterFiles, overlapping, debugProvider, debugRuns>>
  \/ /\ pending = EmptyBag
     /\ \E testPattern \in TestPatterns, isPass \in BOOLEAN, obj \in ConcurrentInputs :
          /\ UpdateCall(testPattern, isPass, obj)
          /\ lastUpdate' = Some([testPattern |-> testPattern, isPass |-> isPass,
                                 transformed |-> transformCoverage(createCoverageMap(obj)),
                                 was |-> getTestPatternIsPass(testPattern),
                                 done |-> FALSE])
     /\ UNCHANGED <<serial, laterFiles, overlapping, debugProvider, debugRuns>>
  \/ \E u \in BagToSet(pending) :
        /\ UpdateResume(u)
        /\ lastUpdate' = IF lastUpdate = Undefined THEN Undefined
                         ELSE Some([lastUpdate[1] EXCEPT !.done = TRUE])
        /\ UNCHANGED <<serial, laterFiles, overlapping, debugProvider, debugRuns>>
  \/ \E filePath \in Files : GetFileCoverages(filePath) /\ UNCHANGED others
  \/ \E fileName \in ReadFiles :
        LineCoverages(fileName, MaxLine, Undefined) /\ UNCHANGED others

SpecReads == Init /\ [][NextReads]_vars

\* awaited updates and resets; `laterFiles' collects the files of every
\* completed update but a pattern's first since the reset
NextSerial ==
  \/ /\ Reset
     /\ laterFiles' = [p \in TestPatterns |-> {}]
     /\ UNCHANGED <<serial, lastUpdate, overlapping, debugProvider, debugRuns>>
  \/ /\ pending = EmptyBag
     /\ \E testPattern \in TestPatterns, isPass \in BOOLEAN, obj \in CoverageInputs :
          UpdateCall(testPattern, isPass, obj)
     /\ UNCHANGED others
  \/ \E u \in BagToSet(pending) :
        /\ UpdateResume(u)
        /\ laterFiles' =
             IF reports[u.testPattern] >= 1
             THEN [laterFiles EXCEPT ![u.testPattern] = @ \cup DOMAIN u.transformed]
             ELSE laterFiles
        /\ UNCHANGED <<serial, lastUpdate, overlapping, debugProvider, debugRuns>>

SpecSerial == Init /\ [][NextSerial]_vars

\* overlapping updates that report on file "f", and resets; `overlapping'
\* keeps the calls of a group of up to two updates that overlap
NextOverlap ==
  \/ /\ Reset
     /\ overlapping' = << >>
     /\ UNCHANGED <<serial, lastUpdate, laterFiles, debugProvider, debugRuns>>
  \/ \E testPattern \in TestPatterns, isPass \in BOOLEAN, obj \in ScoringInputs :
        /\ UpdateCall(testPattern, isPass, obj)
        /\ LET call == [testPattern |-> testPattern, isPass |-> isPass,
                        transformed |-> transformCoverage(createCoverageMap(obj))]
           IN overlapping' = IF pending = EmptyBag THEN << call >>
                             ELSE IF Len(overlapping) = 1 THEN Append(overlapping, call)
                             ELSE << >>
        /\ UNCHANGED <<serial, lastUpdate, laterFiles, debugProvider, debugRuns>>
  \/ \E u \in BagToSet(pending) : UpdateResume(u) /\ UNCHANGED others

SpecOverlap == Init /\ [][NextOverlap]_vars

\* overlapping updates that report on file "f", resets, and scoring requests
NextOverlapScoring ==
  \/ Reset /\ UNCHANGED others
  \/ \E testPattern \in TestPatterns, isPass \in BOOLEAN, obj \in ScoringInputs :
        UpdateCall(testPattern, isPass, obj) /\ UNCHANGED others
  \/ \E u \in BagToSet(pending) : UpdateResume(u) /\ UNCHANGED others
  \/ \E fileName \in ReadFiles, onNoCoverageInfo \in NoCoverageInfoPolicies :
        LineCoverages(fileName, MaxLine, onNoCoverageInfo) /\ UNCHANGED others

SpecOverlapScoring == Init /\ [][NextOverlapScoring]_vars

\* formatter.getLineCoveragesWithDocument(document): the records of the
\* scoring engine for the document, one per line from 1 to its line count
getLineCoveragesWithDocument(fileName, lineCount) ==
  lineCoverages(fileName, lineCount, Undefined)

\* CompareHue with a fault: the operands are exchanged
CompareHueDescending(a, b) ==
  IF a.hue.kind = "NaN" \/ b.hue.kind = "NaN" THEN 0
  ELSE IF a.hue.kind = "Infinity" /\ b.hue.kind = "Infinity" THEN 0
  ELSE IF a.hue = b.hue THEN 0
  ELSE IF Leq(b.hue, a.hue) THEN -1 ELSE 1

\* the comparator `1 - b.hue - (1 - a.hue)' of the ranking, by its sign as
\* Array.prototype.sort reads it: negative, positive, or 0 (also for NaN)
CompareHue(a, b) ==
  IF a.hue.kind = "NaN" \/ b.hue.kind = "NaN" THEN 0
  ELSE IF a.hue.kind = "Infinity" /\ b.hue.kind = "Infinity" THEN 0
  ELSE IF a.hue = b.hue THEN 0
  ELSE IF Leq(a.hue, b.hue) THEN -1 ELSE 1

\* Array.prototype.sort (stable) with CompareHue: insertion of x into a
\* sorted list
RECURSIVE InsertRanked(_, _)
InsertRanked(sorted, x) ==
  IF sorted = << >> THEN << x >>
  ELSE IF CompareHue(x, Head(sorted)) < 0 THEN << x >> \o sorted
  ELSE << Head(sorted) >> \o InsertRanked(Tail(sorted), x)

RECURSIVE SortRanked(_)
SortRanked(list) ==
  IF list = << >> THEN << >>
  ELSE InsertRanked(SortRanked(SubSeq(list, 1, Len(list) - 1)), list[Len(list)])

\* [...lineCoverages.entries()].filter(...): the lines, in line order, whose
\* record is covered and has a hue, each with its hue
RECURSIVE FilterCovered(_, _)
FilterCovered(lineCoverage, line) ==
  IF line > Len(lineCoverage) THEN << >>
  ELSE (IF lineCoverage[line].isCovered /\ lineCoverage[line].hue # Undefined
        THEN << [line |-> line, hue |-> lineCoverage[line].hue[1]] >>
        ELSE << >>)
       \o FilterCovered(lineCoverage, line + 1)

\* the items of the rank-suspiciousness list, by line and hue
rankSuspiciousness(fileName, lineCount) ==
  SortRanked(FilterCovered(getLineCoveragesWithDocument(fileName, lineCount), 1))

\* the rank-suspiciousness command on the active document
RankSuspiciousness(fileName, lineCount) ==
  /\ returned' = [op |-> "rankSuspiciousness", fileName |-> fileName,
                  lineCount |-> lineCount,
                  value |-> rankSuspiciousness(fileName, lineCount)]
  /\ UNCHANGED <<fileNameToTestPatterns, testPatternsToIsPass, testPatternsToMap,
                 pending, reports>>

\* overlapping updates that report on file "f", resets, and the ranking
NextRanking ==
  \/ Reset /\ UNCHANGED others
  \/ \E testPattern \in TestPatterns, isPass \in BOOLEAN, obj \in ScoringInputs :
        UpdateCall(testPattern, isPass, obj) /\ UNCHANGED others
  \/ \E u \in BagToSet(pending) : UpdateResume(u) /\ UNCHANGED others
  \/ \E fileName \in ReadFiles :
        RankSuspiciousness(fileName, MaxLine) /\ UNCHANGED others

SpecRanking == Init /\ [][NextRanking]_vars

(***************************************************************************)
(* DebugConfigurationProvider                                              *)
(***************************************************************************)
\* the file names and the test names handed to prepareTestRun
FileNamesToRun == {"", "a.test.ts", "b.test.ts"}

TestsToRun == {"", "adds", "renders"}

\* the debug configurations that are resolved, by name and args
DebugNames == {"vscode-jest-tests", "launch program", "attach"}

DebugArgs == {<< >>, << "--runInBand" >>, << "--runInBand", "--coverage" >>}

\* prepareTestRun(fileNameToRun, testToRun)
PrepareTestRun(file, test) ==
  /\ fileNameToRun' = file
  /\ testToRun' = test
  /\ returned' = [op |-> "prepareTestRun", fileNameToRun |-> file, testToRun |-> test]
  /\ UNCHANGED <<store, pending, reports>>

\* what resolveDebugConfiguration pushes onto debugConfiguration.args
InjectedArgs ==
  IF fileNameToRun # ""
  THEN << fileNameToRun >>
       \o (IF testToRun # "" THEN << "--testNamePattern", testToRun >> ELSE << >>)
  ELSE << >>

\* ResolveDebugConfiguration with a fault: the names stay after they were
\* pushed
ResolveDebugConfigurationKeeps(name, args) ==
  /\ IF name # "vscode-jest-tests"
     THEN returned' = [op |-> "resolveDebugConfiguration", name |-> name, args |-> args,
                       value |-> [name |-> name, args |-> args, env |-> Undefined]]
     ELSE returned' = [op |-> "resolveDebugConfiguration", name |-> name, args |-> args,
                       value |-> [name |-> name, args |-> args \o InjectedArgs,
                                  env |-> Some([CI |-> "vscode-jest-tests"])]]
  /\ UNCHANGED <<fileNameToRun, testToRun>>
  /\ UNCHANGED <<store, pending, reports>>

\* resolveDebugConfiguration(_folder, debugConfiguration) for a configuration
\* with the given name and args and no env
ResolveDebugConfiguration(name, args) ==
  /\ IF name # "vscode-jest-tests"
     THEN /\ returned' = [op |-> "resolveDebugConfiguration", name |-> name, args |-> args,
                          value |-> [name |-> name, args |-> args, env |-> Undefined]]
          /\ UNCHANGED <<fileNameToRun, testToRun>>
     ELSE /\ returned' = [op |-> "resolveDebugConfiguration", name |-> name, args |-> args,
                          value |-> [name |-> name, args |-> args \o InjectedArgs,
                                     env |-> Some([CI |-> "vscode-jest-tests"])]]
          /\ IF fileNameToRun # ""
             THEN fileNameToRun' = "" /\ testToRun' = ""
             ELSE UNCHANGED <<fileNameToRun, testToRun>>
  /\ UNCHANGED <<store, pending, reports>>

\* the debug configuration provider on its own; `debugRuns' keeps the last
\* prepareTestRun and counts the resolved configurations that got arguments
\* appended since, up to two
NextDebug ==
  \/ \E file \in FileNamesToRun, test \in TestsToRun :
        /\ PrepareTestRun(file, test)
        /\ debugRuns' = [prepared |-> Some([fileNameToRun |-> file, testToRun |-> test]),
                        appended |-> 0]
        /\ UNCHANGED <<serial, lastUpdate, laterFiles, overlapping>>
  \/ \E name \in DebugNames, args \in DebugArgs :
        /\ ResolveDebugConfiguration(name, args)
        /\ debugRuns' = IF returned'.value.args # args /\ debugRuns.appended < 2
                        THEN [debugRuns EXCEPT !.appended = @ + 1]
                        ELSE debugRuns
        /\ UNCHANGED <<serial, lastUpdate, laterFiles, overlapping>>

SpecDebug == Init /\ [][NextDebug]_vars

\* lines 116-127 for one covered line: the hue of a line with the given
\* tallies, in a file with the given totals
ScoreLine(numOfPassTests, numOfFailedTests, totalSuccess, totalFailed) ==
  /\ numOfFailedTests + numOfPassTests > 0
  /\ returned' = [op |-> "hue",
                  numOfPassTests |-> numOfPassTests,
                  numOfFailedTests |-> numOfFailedTests,
                  totalSuccess |-> totalSuccess, totalFailed |-> totalFailed,
                  value |-> Hue(numOfPassTests, numOfFailedTests,
                                totalSuccess, totalFailed)]
  /\ UNCHANGED <<fileNameToTestPatterns, testPatternsToIsPass, testPatternsToMap,
                 pending, reports>>

\* the score of covered lines, for every tally and total up to MaxRuns; a
\* passed tally never exceeds the passed total
NextHue ==
  \E numOfPassTests, numOfFailedTests, totalSuccess, totalFailed \in 0..MaxRuns :
    /\ numOfPassTests <= totalSuccess
    /\ ScoreLine(numOfPassTests, numOfFailedTests, totalSuccess, totalFailed)
    /\ UNCHANGED others

SpecHue == Init /\ [][NextHue]_vars

\* ---- the code lenses of a document ----

\* the last line a code lens of the document can be on (lines count from 0)
MaxLensLine == 4

\* titles of per-line code lenses, as provideCodeLenses writes them
LensTitles ==
  { "No. Pass Tests: 1, No. Failed Tests: 0, Suspiciousness: 0",
    "No. Pass Tests: 1, No. Failed Tests: 1, Suspiciousness: 0.5" }

\* new vscode.CodeLens(new vscode.Range(line, 0, line, 0), {title, command: ''}):
\* the range starts and ends on the same line
CodeLens(line, title) == [line |-> line, title |-> Some(title)]

\* the code lenses provideCodeLenses builds for the lines in lensLines, one a
\* line, in ascending order of line, with the titles titleOf gives them
codeLensesOf(lensLines, titleOf) ==
  [i \in 1..Cardinality(lensLines) |->
     LET line == CHOOSE l \in lensLines :
                   Cardinality({k \in lensLines : k < l}) = i - 1
     IN CodeLens(line, titleOf[line])]

\* the loop of compressCodeLenses from index i (counted from 1) on
RECURSIVE compressFrom(_, _, _, _)
compressFrom(codelenses, i, firstLine, compressed) ==
  IF i > Len(codelenses) - 1 THEN compressed
  ELSE IF /\ ~ ( /\ codelenses[i].title = codelenses[i + 1].title
                 /\ codelenses[i].line = codelenses[i + 1].line - 1 )
          /\ codelenses[i].title # Undefined
       THEN compressFrom(codelenses, i + 1, codelenses[i + 1].line,
                         Append(compressed, CodeLens(firstLine, codelenses[i].title[1])))
       ELSE compressFrom(codelenses, i + 1, firstLine, compressed)

compressCodeLenses(codelenses) ==
  IF Len(codelenses) = 0 THEN << >>
  ELSE compressFrom(codelenses, 1, codelenses[1].line, << >>)

CompressCodeLenses(codelenses) ==
  /\ returned' = [op |-> "compressCodeLenses", codelenses |-> codelenses,
                  value |-> compressCodeLenses(codelenses)]
  /\ UNCHANGED <<fileNameToTestPatterns, testPatternsToIsPass, testPatternsToMap,
                 pending, reports>>

\* the compression of every list of code lenses on lines up to MaxLensLine
NextCodeLens ==
  \E lensLines \in SUBSET (0..MaxLensLine) :
    \E titleOf \in [lensLines -> LensTitles] :
      /\ CompressCodeLenses(codeLensesOf(lensLines, titleOf))
      /\ UNCHANGED others

SpecCodeLens == Init /\ [][NextCodeLens]_vars

(***************************************************************************)
(* Properties                                                              *)
(***************************************************************************)
\* the store of a freshly constructed provider
FreshStore == <<EmptyMap, EmptyMap, EmptyMap>>

\* getFileCoverages(filePath) has an entry for testPattern
HasEntry(filePath, testPattern) ==
  \E i \in DOMAIN getFileCoverages(filePath) :
    getFileCoverages(filePath)[i].testPattern = testPattern

\* severity: uncovered > partially-covered > covered
Severity(status) ==
  CASE status = "uncovered" -> 3
    [] status = "partially-covered" -> 2
    [] status = "covered" -> 1

MostSevere(statuses) ==
  CHOOSE s \in statuses : \A t \in statuses : Severity(t) <= Severity(s)

\* every order in which the statuses of a list can be collected
Orders(list) ==
  {[i \in DOMAIN list |-> list[pi[i]]] : pi \in Permutations(DOMAIN list)}

\* the non-empty status lists of up to three statuses
StatusLists ==
  UNION {[1..n -> CoverageStatus] : n \in 1..3}

\* C1: Reverse-index timing.  While exactly one update of a pattern p has
\* completed since construction or the last reset, getFileCoverages(f) has
\* no entry for p for the files f of that update's coverage; right after a
\* second (or later) completed update of p, getFileCoverages(f) has an entry
\* for p for every file f of that update's coverage.
C1_ReverseIndexTiming ==
  /\ \A p \in TestPatterns :
       reports[p] = 1 =>
         /\ p \in DOMAIN testPatternsToMap
         /\ \A f \in files(testPatternsToMap[p]) : ~HasEntry(f, p)
  /\ (returned.op = "update" /\ reports[returned.testPattern] >= 2) =>
       \A f \in files(returned.transformed) : HasEntry(f, returned.testPattern)

\* a second update of a pattern, reporting on "f" as its first did, has just
\* completed and the pattern is now listed for "f"
C1_Witness ==
  /\ returned.op = "update"
  /\ reports[returned.testPattern] = 2
  /\ returned.was # Undefined
  /\ "f" \in files(returned.was[1])
  /\ "f" \in files(returned.transformed)
  /\ HasEntry("f", returned.testPattern)

\* C2: Verdict overwrite.  An update call for p with verdict v leaves
\* getTestPatternIsPass(p) = v whatever was recorded before and whatever
\* coverage it carries, and no step other than an update call for p (or a
\* reset) changes getTestPatternIsPass(p): the verdict of p is the one passed
\* to the most recent update for p.
C2_VerdictStep ==
  /\ \A p \in TestPatterns :
       (returned'.op = "updateCall" /\ returned'.testPattern = p) =>
         getTestPatternIsPass(p)' = Some(returned'.isPass)
  /\ \A p \in TestPatterns :
       getTestPatternIsPass(p)' # getTestPatternIsPass(p) =>
         \/ returned'.op = "reset"
         \/ returned'.op = "updateCall" /\ returned'.testPattern = p

C2_VerdictOverwrite == [][C2_VerdictStep]_vars

\* update(p, true, ..) has been followed by update(p, false, ..)
C2_Witness ==
  /\ returned.op = "updateCall"
  /\ returned.was = Some(TRUE)
  /\ returned.isPass = FALSE
  /\ getTestPatternIsPass(returned.testPattern) = Some(FALSE)

\* C3: Merge-not-union.  Right after a completed update of p, the coverage
\* stored for p for every file of the update's coverage is that file's
\* coverage in the update (its hit counts), whatever was stored before.
C3_MergeNotUnion ==
  returned.op = "update" =>
    \A f \in files(returned.transformed) :
      getTestPatternFileCoverage(returned.testPattern, f) = Some(returned.transformed[f])

\* an update with covB for "f" has completed for a pattern that had covA
\* stored for "f"
C3_Witness ==
  /\ returned.op = "update"
  /\ returned.was # Undefined
  /\ "f" \in files(returned.was[1])
  /\ returned.was[1]["f"] = covA
  /\ "f" \in files(returned.transformed)
  /\ returned.transformed["f"] = covB
  /\ getTestPatternFileCoverage(returned.testPattern, "f") = Some(covB)

\* C4: Reset empties the store.  Right after reset() the store is that of a
\* freshly constructed provider: getFileCoverages(f) is empty and
\* getSummary(f) counts 0 passed and 0 failed for every f, and
\* getTestPatternIsPass(p) is undefined for every p.
C4_ResetEmpties ==
  returned.op = "reset" =>
    /\ store = FreshStore
    /\ \A f \in QueryFiles :
         /\ getFileCoverages(f) = << >>
         /\ getSummary(f) = [numOfPassTests |-> 0, numOfFailedTests |-> 0]
    /\ \A p \in TestPatterns : getTestPatternIsPass(p) = Undefined

\* reset() has run while an update, which had recorded its verdict, is
\* suspended
C4_Witness ==
  /\ returned.op = "reset"
  /\ pending # EmptyBag

\* C5: Reverse-index soundness.  Every pattern in the reverse index of a
\* file is a key of the pattern-to-coverage-map table.
C5_IndexSound ==
  \A f \in DOMAIN fileNameToTestPatterns :
    \A p \in Range(fileNameToTestPatterns[f]) : p \in DOMAIN testPatternsToMap

\* a pattern is indexed while updates are suspended
C5_Witness ==
  /\ \E f \in DOMAIN fileNameToTestPatterns : fileNameToTestPatterns[f] # << >>
  /\ BagCardinality(pending) >= 2

\* the entry's coverage resolves to 'covered' at the line with no callback
Covers(fileCoverage, line) == LineStatus(fileCoverage, line, Undefined) = "covered"

\* C6: Monotonicity scenario.  Once update has completed for A (pass, its
\* coverage of "f" covering lines 10 and 20) and for B (fail, its coverage of
\* "f" covering line 10 but not line 20), scoring "f" gives 1 passed, 1 failed
\* and suspiciousness 0.5 for line 10, and 1 passed, 0 failed and
\* suspiciousness 1.0 for line 20.
C6_MonotonicityScenario ==
  ( /\ returned.op = "lineCoverages"
    /\ returned.fileName = "f"
    /\ returned.lineCount >= 20
    /\ returned.onNoCoverageInfo = Undefined
    /\ pending = EmptyBag
    /\ reports["A"] >= 1 /\ reports["B"] >= 1
    /\ getTestPatternIsPass("A") = Some(TRUE)
    /\ getTestPatternIsPass("B") = Some(FALSE)
    /\ getTestPatternFileCoverage("A", "f") # Undefined
    /\ getTestPatternFileCoverage("B", "f") # Undefined
    /\ Covers(getTestPatternFileCoverage("A", "f")[1], 10)
    /\ Covers(getTestPatternFileCoverage("A", "f")[1], 20)
    /\ Covers(getTestPatternFileCoverage("B", "f")[1], 10)
    /\ ~Covers(getTestPatternFileCoverage("B", "f")[1], 20) )
  => /\ returned.value[10] = [numOfPassTests |-> 1, numOfFailedTests |-> 1,
                              isCovered |-> TRUE, hue |-> Some(Fraction(1, 2))]
     /\ returned.value[20] = [numOfPassTests |-> 1, numOfFailedTests |-> 0,
                              isCovered |-> TRUE, hue |-> Some(Number(1))]

\* C7: Suspiciousness bounds.  For every covered line of a scoring result,
\* when the file has both a passing and a failing entry, the denominator of
\* the formula is nonzero and the score is the value of the formula, a
\* number between 0 and 1.
C7_SuspiciousnessBounds ==
  returned.op = "lineCoverages" =>
    LET cs == getFileCoverages(returned.fileName)
        totalPassedRuns == Cardinality({i \in DOMAIN cs : cs[i].isPass = Some(TRUE)})
        totalFailedRuns == Cardinality({i \in DOMAIN cs : cs[i].isPass = Some(FALSE)})
    IN \A line \in DOMAIN returned.value :
         LET r == returned.value[line]
         IN (r.isCovered /\ totalPassedRuns > 0 /\ totalFailedRuns > 0) =>
              /\ r.numOfPassTests * totalFailedRuns + r.numOfFailedTests * totalPassedRuns > 0
              /\ r.hue # Undefined
              /\ r.hue[1].kind = "finite"
              /\ r.hue[1].num * (r.numOfPassTests * totalFailedRuns
                                   + r.numOfFailedTests * totalPassedRuns)
                   = r.hue[1].den * (r.numOfPassTests * totalFailedRuns)
              /\ Leq(Number(0), r.hue[1])
              /\ Leq(r.hue[1], Number(1))

\* a covered line has been scored for a file with a passing and a failing
\* entry, the line being covered by the passing one only
C7_Witness ==
  /\ returned.op = "lineCoverages"
  /\ returned.lineCount = MaxLine
  /\ \E i, j \in DOMAIN getFileCoverages(returned.fileName) :
       /\ getFileCoverages(returned.fileName)[i].isPass = Some(TRUE)
       /\ getFileCoverages(returned.fileName)[j].isPass = Some(FALSE)
  /\ \E line \in DOMAIN returned.value :
       /\ returned.value[line].isCovered
       /\ returned.value[line].numOfFailedTests = 0

\* C8: Severity resolution.  For every entry and line of a scoring request,
\* the resolved status is the most severe of the statuses of the checks that
\* apply, in whatever order they are collected, hence 'covered' only if every
\* applicable check says 'covered'; a line with no applicable check resolves
\* to what the callback returns, and to 'uncovered' without a callback.  The
\* same holds of every list of up to three statuses.
C8_SeverityResolution ==
  /\ \A list \in StatusLists : ResolveStatus(list) = MostSevere(Range(list))
  /\ returned.op = "lineCoverages" =>
       LET cs == getFileCoverages(returned.fileName)
       IN \A i \in DOMAIN cs : \A line \in 1..returned.lineCount :
            cs[i].fileCoverage # Undefined =>
              LET checked == CheckedStatusList(cs[i].fileCoverage[1], line)
                  resolved == LineStatus(cs[i].fileCoverage[1], line,
                                         returned.onNoCoverageInfo)
              IN IF checked # << >>
                 THEN /\ resolved = MostSevere(Range(checked))
                      /\ \A order \in Orders(checked) : ResolveStatus(order) = resolved
                      /\ resolved = "covered" <=> Range(checked) = {"covered"}
                 ELSE resolved = IF returned.onNoCoverageInfo = Undefined
                                 THEN "uncovered"
                                 ELSE returned.onNoCoverageInfo[1]

\* a scored entry has, at line 15, a function with hit count 0 and a
\* statement with hit count 5, and the line counts for no run
C8_Witness ==
  /\ returned.op = "lineCoverages"
  /\ returned.lineCount >= 15
  /\ \E i \in DOMAIN getFileCoverages(returned.fileName) :
       LET c == getFileCoverages(returned.fileName)[i]
       IN /\ c.fileCoverage # Undefined
          /\ MapGet(getFunctionCoverageByLine(c.fileCoverage[1]), 15) = Some(0)
          /\ MapGet(getLineCoverage(c.fileCoverage[1]), 15) = Some(5)
          /\ LineStatus(c.fileCoverage[1], 15, returned.onNoCoverageInfo) = "uncovered"
  /\ Len(getFileCoverages(returned.fileName)) = 1
  /\ ~returned.value[15].isCovered

\* C9: Empty store.  Scoring any file with any line count on a store that
\* holds nothing returns a record for each line from 1 to the line count,
\* with 0 passed, 0 failed, isCovered false and no suspiciousness.
C9_EmptyStore ==
  (returned.op = "lineCoverages" /\ store = FreshStore) =>
    /\ DOMAIN returned.value = 1..returned.lineCount
    /\ \A line \in 1..returned.lineCount :
         returned.value[line] = [numOfPassTests |-> 0, numOfFailedTests |-> 0,
                                 isCovered |-> FALSE, hue |-> Undefined]

\* a document of MaxLine lines has been scored on an empty store
C9_Witness ==
  /\ returned.op = "lineCoverages"
  /\ store = FreshStore
  /\ returned.lineCount = MaxLine
  /\ returned.fileName = "f"

\* C10: Unknown file.  getFileCoverages(f) for a file f without an entry in
\* the reverse index returns the empty sequence, leaves the store as it is
\* and creates no index entry for f.
C10_UnknownFileStep ==
  (returned'.op = "getFileCoverages"
     /\ returned'.filePath \notin DOMAIN fileNameToTestPatterns) =>
    /\ returned'.value = << >>
    /\ store' = store
    /\ returned'.filePath \notin DOMAIN fileNameToTestPatterns'

C10_UnknownFile == [][C10_UnknownFileStep]_vars

\* getFileCoverages("h") has returned the empty sequence on a store that
\* indexes other files
C10_Witness ==
  /\ returned.op = "getFileCoverages"
  /\ returned.filePath = "h"
  /\ returned.value = << >>
  /\ DOMAIN fileNameToTestPatterns # {}

\* C11: Absent coverage.  The completion of an update that was given no
\* coverage leaves the pattern-to-coverage-map table (its keys included) and
\* the reverse index as they were, for a pattern that has not been reported
\* as for one that has.
C11_AbsentCoverageStep ==
  (returned'.op = "update" /\ returned'.transformed = EmptyMap) =>
    /\ testPatternsToMap' = testPatternsToMap
    /\ fileNameToTestPatterns' = fileNameToTestPatterns

C11_AbsentCoverage == [][C11_AbsentCoverageStep]_vars

\* C12: Record consistency.  In every record the scoring returns, isCovered
\* is true exactly when the passed and failed tallies sum to more than zero,
\* and the suspiciousness is undefined whenever isCovered is false.
C12_RecordConsistency ==
  returned.op = "lineCoverages" =>
    \A line \in DOMAIN returned.value :
      LET record == returned.value[line]
      IN /\ record.isCovered <=> record.numOfPassTests + record.numOfFailedTests > 0
         /\ ~record.isCovered => record.hue = Undefined

\* one scoring result holds a line that runs cover and a line that none covers
C12_Witness ==
  /\ returned.op = "lineCoverages"
  /\ returned.lineCount = MaxLine
  /\ returned.value[10].isCovered
  /\ returned.value[10].hue # Undefined
  /\ ~returned.value[1].isCovered
  /\ returned.value[1].hue = Undefined

\* the patterns that the reverse index holds for filePath
Indexed(filePath) ==
  IF filePath \in DOMAIN fileNameToTestPatterns
  THEN Range(fileNameToTestPatterns[filePath])
  ELSE {}

\* C13: Per-file view and summary.  With updates awaited one at a time,
\* getFileCoverages(f) returns one entry for each pattern indexed against f,
\* none twice and none missing, each with the pattern's current verdict; the
\* two counts of getSummary(f) are the numbers of those patterns whose verdict
\* is pass and fail, and they sum to the number of entries.
C13_ViewAndSummary ==
  /\ returned.op = "getFileCoverages" =>
       LET value == returned.value
       IN /\ {value[i].testPattern : i \in DOMAIN value} = Indexed(returned.filePath)
          /\ \A i, j \in DOMAIN value :
               value[i].testPattern = value[j].testPattern => i = j
          /\ \A i \in DOMAIN value :
               value[i].isPass = getTestPatternIsPass(value[i].testPattern)
  /\ returned.op = "getSummary" =>
       LET value == returned.value
           indexed == Indexed(returned.filePath)
       IN /\ value.numOfPassTests =
               Cardinality({p \in indexed : getTestPatternIsPass(p) = Some(TRUE)})
          /\ value.numOfFailedTests =
               Cardinality({p \in indexed : getTestPatternIsPass(p) = Some(FALSE)})
          /\ value.numOfPassTests + value.numOfFailedTests =
               Len(getFileCoverages(returned.filePath))

\* the summary of a file with one passing and one failing pattern
C13_Witness ==
  /\ returned.op = "getSummary"
  /\ returned.value = [numOfPassTests |-> 1, numOfFailedTests |-> 1]
  /\ Len(getFileCoverages(returned.filePath)) = 2

\* C14: Scoring is pure.  A scoring request, and getFileCoverages and
\* getSummary, leave the verdicts, the per-pattern coverage maps and the
\* reverse index as they were; a scoring request repeated for the same file,
\* line count and fallback with no update or reset in between returns the
\* same records.
C14_PureStep ==
  returned'.op \in {"lineCoverages", "getFileCoverages", "getSummary"} =>
    store' = store

\* the records the last scoring request returned are the ones the same
\* request returns now
C14_SameRecords ==
  returned.op = "lineCoverages" =>
    returned.value =
      lineCoverages(returned.fileName, returned.lineCount, returned.onNoCoverageInfo)

C14_ScoringIsPure == [][C14_PureStep]_vars /\ []C14_SameRecords

\* a scoring request has run on a store with an indexed pattern and has
\* found a covered line
C14_Witness ==
  /\ returned.op = "lineCoverages"
  /\ returned.fileName = "f"
  /\ returned.lineCount = MaxLine
  /\ Indexed("f") # {}
  /\ returned.value[10].isCovered

\* C15: Concurrent updates of different patterns.  When the updates that
\* overlap are for pairwise distinct patterns, then once all of them have
\* completed, whatever the order of their completions, the verdicts, the
\* per-pattern coverage maps and the membership sets of the reverse index are
\* those of running the same calls one after another.
C15_DistinctPatterns ==
  pending = EmptyBag =>
    /\ testPatternsToIsPass = serial.isPass
    /\ testPatternsToMap = serial.map
    /\ DOMAIN fileNameToTestPatterns = DOMAIN serial.index
    /\ \A fileName \in DOMAIN fileNameToTestPatterns :
         Range(fileNameToTestPatterns[fileName]) = Range(serial.index[fileName])

\* updates of A and B that were called in that order have overlapped and
\* completed in the opposite order, each registering its pattern for "f"
C15_Witness ==
  /\ pending = EmptyBag
  /\ "f" \in DOMAIN fileNameToTestPatterns
  /\ fileNameToTestPatterns["f"] = << "B", "A" >>
  /\ serial.index["f"] = << "A", "B" >>

\* the file that the last read was about
ReadFile == IF returned.op = "lineCoverages" THEN returned.fileName ELSE returned.filePath

\* C16: Read during an in-flight update.  A getFileCoverages or scoring
\* request that runs when no update is suspended observes, for the pattern of
\* the update that completed last, that update fully applied: its verdict
\* and, for a file it reported, its coverage.  (A read that runs while the
\* update is suspended can observe the new verdict with the old coverage:
\* C16_Witness.)
C16_ReadBetweenUpdates ==
  ( /\ returned.op \in {"getFileCoverages", "lineCoverages"}
    /\ pending = EmptyBag
    /\ lastUpdate # Undefined ) =>
    LET entries == getFileCoverages(ReadFile)
        update == lastUpdate[1]
    IN /\ returned.op = "getFileCoverages" => returned.value = entries
       /\ update.done
       /\ \A i \in DOMAIN entries :
            entries[i].testPattern = update.testPattern =>
              /\ entries[i].isPass = Some(update.isPass)
              /\ ReadFile \in files(update.transformed) =>
                   entries[i].fileCoverage = Some(update.transformed[ReadFile])

\* getFileCoverages has run while an update of a pattern was suspended and
\* has returned for that pattern the update's verdict, which is not the one
\* before the update, with the coverage from before the update, which is not
\* the one the update reports
C16_Witness ==
  /\ returned.op = "getFileCoverages"
  /\ lastUpdate # Undefined
  /\ ~lastUpdate[1].done
  /\ BagIn([testPattern |-> lastUpdate[1].testPattern,
            transformed |-> lastUpdate[1].transformed], pending)
  /\ returned.filePath \in files(lastUpdate[1].transformed)
  /\ lastUpdate[1].was = Some(~lastUpdate[1].isPass)
  /\ \E i \in DOMAIN returned.value :
       /\ returned.value[i].testPattern = lastUpdate[1].testPattern
       /\ returned.value[i].isPass = Some(lastUpdate[1].isPass)
       /\ returned.value[i].fileCoverage # Undefined
       /\ returned.value[i].fileCoverage #
            Some(lastUpdate[1].transformed[returned.filePath])

\* the entries of the file that was scored last
ScoredEntries == getFileCoverages(returned.fileName)

\* the entries that count for a line: coverage defined and resolved to covered
CoveringEntries(line) ==
  {i \in DOMAIN ScoredEntries :
     /\ ScoredEntries[i].fileCoverage # Undefined
     /\ LineStatus(ScoredEntries[i].fileCoverage[1], line,
                   returned.onNoCoverageInfo) = "covered"}

totalPassedRuns ==
  Cardinality({i \in DOMAIN ScoredEntries : ScoredEntries[i].isPass = Some(TRUE)})

totalFailedRuns ==
  Cardinality({i \in DOMAIN ScoredEntries : ScoredEntries[i].isPass = Some(FALSE)})

\* C17: Tally rule.  For every line, the passed tally is the number of
\* entries of getFileCoverages(file) with a defined fileCoverage that resolve
\* to covered at the line and have verdict pass, and the failed tally is the
\* number of such entries with verdict fail.
C17_TallyRule ==
  returned.op = "lineCoverages" =>
    \A line \in DOMAIN returned.value :
      /\ returned.value[line].numOfPassTests =
           Cardinality({i \in CoveringEntries(line) : ScoredEntries[i].isPass = Some(TRUE)})
      /\ returned.value[line].numOfFailedTests =
           Cardinality({i \in CoveringEntries(line) : ScoredEntries[i].isPass = Some(FALSE)})

\* C18: Totals dominate tallies.  With the totals the numbers of all entries
\* of getFileCoverages(file) with verdict pass and with verdict fail, every
\* line's passed tally is at most the passed total and its failed tally at
\* most the failed total.
C18_TotalsDominate ==
  returned.op = "lineCoverages" =>
    \A line \in DOMAIN returned.value :
      /\ returned.value[line].numOfPassTests <= totalPassedRuns
      /\ returned.value[line].numOfFailedTests <= totalFailedRuns

\* C19: Frame of update.  The call of update(p, v, cov) changes p's verdict
\* and nothing else of the store; its completion changes only p's stored
\* coverage for the files in cov and p's membership in the reverse index of
\* those files: the verdicts, every other pattern's coverage and memberships,
\* and p's coverage and membership for the files absent from cov stay as they
\* were.
C19_FrameStep ==
  \A p \in TestPatterns :
    /\ (returned'.op = "updateCall" /\ returned'.testPattern = p) =>
         /\ \A q \in TestPatterns \ {p} :
              getTestPatternIsPass(q)' = getTestPatternIsPass(q)
         /\ testPatternsToMap' = testPatternsToMap
         /\ fileNameToTestPatterns' = fileNameToTestPatterns
    /\ (returned'.op = "update" /\ returned'.testPattern = p) =>
         /\ testPatternsToIsPass' = testPatternsToIsPass
         /\ \A q \in TestPatterns \ {p} :
              MapGet(testPatternsToMap, q)' = MapGet(testPatternsToMap, q)
         /\ \A f \in QueryFiles :
              /\ f \notin files(returned'.transformed) =>
                   /\ getTestPatternFileCoverage(p, f)' = getTestPatternFileCoverage(p, f)
                   /\ (p \in Indexed(f))' <=> p \in Indexed(f)
              /\ \A q \in TestPatterns \ {p} :
                   (q \in Indexed(f))' <=> q \in Indexed(f)

C19_FrameOfUpdate == [][C19_FrameStep]_vars

\* an update that reports only "f" has completed for a pattern that had
\* coverage of "g" and was registered for "g": both are still there, and the
\* pattern's coverage of "f" is the reported one, which differs from before
C19_Witness ==
  /\ returned.op = "update"
  /\ files(returned.transformed) = {"f"}
  /\ returned.was # Undefined
  /\ DOMAIN returned.was[1] = {"f", "g"}
  /\ returned.was[1]["f"] # returned.transformed["f"]
  /\ getTestPatternFileCoverage(returned.testPattern, "f") = Some(returned.transformed["f"])
  /\ getTestPatternFileCoverage(returned.testPattern, "g") = Some(returned.was[1]["g"])
  /\ returned.testPattern \in Indexed("g")

\* C20: Unguarded division.  For a covered line, when the passed total or the
\* failed total is 0 the suspiciousness is NaN.
C20_UnguardedDivision ==
  returned.op = "lineCoverages" =>
    \A line \in DOMAIN returned.value :
      ( /\ returned.value[line].isCovered
        /\ (totalPassedRuns = 0 \/ totalFailedRuns = 0) ) =>
      returned.value[line].hue = Some(NaN)

\* C21: Score direction.  With a passed total and a failed total above 0, a
\* line covered only by failing runs scores 0, a line covered only by passing
\* runs scores 1, and for fixed totals the score does not decrease when the
\* passed tally grows and does not increase when the failed tally grows.
C21_ScoreDirection ==
  ( /\ returned.op = "hue"
    /\ returned.totalSuccess > 0
    /\ returned.totalFailed > 0 ) =>
    /\ returned.numOfPassTests = 0 => returned.value = Number(0)
    /\ returned.numOfFailedTests = 0 => returned.value = Number(1)
    /\ Leq(returned.value,
           Hue(returned.numOfPassTests + 1, returned.numOfFailedTests,
               returned.totalSuccess, returned.totalFailed))
    /\ Leq(Hue(returned.numOfPassTests, returned.numOfFailedTests + 1,
               returned.totalSuccess, returned.totalFailed),
           returned.value)

\* a line that two of three passing runs and no failing run cover has been
\* scored
C21_Witness ==
  /\ returned.op = "hue"
  /\ returned.numOfPassTests = 2
  /\ returned.numOfFailedTests = 0
  /\ returned.totalSuccess = 3
  /\ returned.totalFailed = 1
  /\ returned.value = Number(1)

\* C22: Bimodal classification.  For every entry and line of a scoring
\* request, the function, branch and statement checks push only 'covered' or
\* 'uncovered'; the branch check pushes 'uncovered' when none of the line's
\* branch arms was taken and 'covered' otherwise, also when only some were.
C22_Bimodal ==
  returned.op = "lineCoverages" =>
    LET cs == getFileCoverages(returned.fileName)
    IN \A i \in DOMAIN cs : \A line \in 1..returned.lineCount :
         cs[i].fileCoverage # Undefined =>
           LET fileCoverage == cs[i].fileCoverage[1]
               checked == CheckedStatusList(fileCoverage, line)
               bc == MapGet(getBranchCoverageByLine(fileCoverage), line)
               fc == MapGet(getFunctionCoverageByLine(fileCoverage), line)
               position == IF fc # Undefined THEN 2 ELSE 1
           IN /\ Range(checked) \subseteq {"covered", "uncovered"}
              /\ bc # Undefined =>
                   checked[position] =
                     IF bc[1].covered = 0 THEN "uncovered" ELSE "covered"

\* the only scored entry has, at line 16, a branch with one of its two arms
\* taken and no function or statement, and the line counts as covered
C22_Witness ==
  /\ returned.op = "lineCoverages"
  /\ returned.lineCount >= 16
  /\ Len(getFileCoverages(returned.fileName)) = 1
  /\ LET c == getFileCoverages(returned.fileName)[1]
     IN /\ c.fileCoverage # Undefined
        /\ MapGet(getBranchCoverageByLine(c.fileCoverage[1]), 16) # Undefined
        /\ getBranchCoverageByLine(c.fileCoverage[1])[16].covered = 1
        /\ getBranchCoverageByLine(c.fileCoverage[1])[16].total = 2
        /\ CheckedStatusList(c.fileCoverage[1], 16) = << "covered" >>
  /\ returned.value[16].isCovered

\* C23: Index membership characterisation.  With updates awaited one at a
\* time, pattern p is indexed against file f, and getFileCoverages(f) has an
\* entry for p, exactly when an update of p that completed since the last
\* reset, other than p's first, reported f.
C23_IndexMembership ==
  \A p \in TestPatterns : \A f \in Files :
    /\ p \in Indexed(f) <=> f \in laterFiles[p]
    /\ HasEntry(f, p) <=> f \in laterFiles[p]

\* a pattern's first report had "g"; a later update without "g" has
\* completed: the coverage of "g" is stored for the pattern, which is indexed
\* against "f" and not against "g"
C23_Witness ==
  /\ pending = EmptyBag
  /\ returned.op = "update"
  /\ reports[returned.testPattern] >= 2
  /\ getTestPatternFileCoverage(returned.testPattern, "g") # Undefined
  /\ ~HasEntry("g", returned.testPattern)
  /\ HasEntry("f", returned.testPattern)

\* C24: Indexed implies covered.  For every file f and every pattern in the
\* reverse index of f, the pattern's stored coverage map has an entry for f,
\* so every entry of getFileCoverages(f) has a defined fileCoverage.
C24_IndexedImpliesCovered ==
  \A f \in QueryFiles :
    /\ \A p \in Indexed(f) :
         /\ p \in DOMAIN testPatternsToMap
         /\ f \in files(testPatternsToMap[p])
    /\ \A i \in DOMAIN getFileCoverages(f) :
         getFileCoverages(f)[i].fileCoverage # Undefined

\* a pattern is indexed against "g", which its first report did not have
C24_Witness ==
  /\ returned.op = "update"
  /\ returned.was # Undefined
  /\ "g" \notin files(returned.was[1])
  /\ returned.testPattern \in Indexed("g")
  /\ getTestPatternFileCoverage(returned.testPattern, "g") # Undefined

\* C25: Overlapping updates of the same pattern.  When two updates of one
\* pattern have overlapped and both have completed, the pattern's stored
\* verdict and its stored coverage for every file that both reported come
\* from the same one of the two calls.
C25_SameCall ==
  ( /\ pending = EmptyBag
    /\ Len(overlapping) = 2
    /\ overlapping[1].testPattern = overlapping[2].testPattern ) =>
    \E k \in 1..2 :
      /\ getTestPatternIsPass(overlapping[k].testPattern) = Some(overlapping[k].isPass)
      /\ \A f \in files(overlapping[1].transformed) \cap files(overlapping[2].transformed) :
           getTestPatternFileCoverage(overlapping[k].testPattern, f) =
             Some(overlapping[k].transformed[f])

\* C26: Every stored pattern has a verdict.  In every state, also after a
\* reset that ran while an update was suspended and the resumption of that
\* update, every pattern with an entry in the pattern-to-coverage-map table has
\* a recorded verdict.
C26_StoredHasVerdict ==
  \A p \in DOMAIN testPatternsToMap : getTestPatternIsPass(p) # Undefined

\* x < y, false when either is NaN
Less(x, y) == Leq(x, y) /\ x # y

\* C27: Ranking view.  The rank-suspiciousness list has one item for each
\* line whose record is covered and has a score, and for no other line, each
\* with the record's score; the items are in ascending order of score: no item
\* comes before an item with a lower score.
C27_RankingView ==
  returned.op = "rankSuspiciousness" =>
    LET records == lineCoverages(returned.fileName, returned.lineCount, Undefined)
        value == returned.value
    IN /\ {value[i].line : i \in DOMAIN value} =
            {line \in DOMAIN records :
               records[line].isCovered /\ records[line].hue # Undefined}
       /\ \A i, j \in DOMAIN value : value[i].line = value[j].line => i = j
       /\ \A i \in DOMAIN value : records[value[i].line].hue = Some(value[i].hue)
       /\ \A i, j \in DOMAIN value : i < j => ~Less(value[j].hue, value[i].hue)

\* a ranking of four lines, the two with score 0 before the two with score
\* 1/2, where the line order has them alternate
C27_Witness ==
  /\ returned.op = "rankSuspiciousness"
  /\ returned.value = << [line |-> 15, hue |-> Number(0)],
                         [line |-> 20, hue |-> Number(0)],
                         [line |-> 10, hue |-> Fraction(1, 2)],
                         [line |-> 16, hue |-> Fraction(1, 2)] >>

\* C28: Debug-run injection is one-shot.  The names set by prepareTestRun are
\* appended to the args of at most one resolved configuration named
\* 'vscode-jest-tests', and what is appended is the prepared file name,
\* followed by --testNamePattern and the prepared test name when there is
\* one; once a configuration got them, a further one gets nothing appended
\* until the next prepareTestRun; a configuration with another name gets
\* nothing appended and uses nothing up.
C28_OneShotStep ==
  \A name \in DebugNames, args \in DebugArgs :
    ( /\ returned'.op = "resolveDebugConfiguration"
      /\ returned'.name = name
      /\ returned'.args = args ) =>
      LET appended == SubSeq(returned'.value.args, Len(args) + 1,
                             Len(returned'.value.args))
      IN /\ SubSeq(returned'.value.args, 1, Len(args)) = args
         /\ name # "vscode-jest-tests" =>
              /\ appended = << >>
              /\ fileNameToRun' = fileNameToRun /\ testToRun' = testToRun
         /\ debugRuns.appended >= 1 => appended = << >>
         /\ appended # << >> =>
              /\ debugRuns.prepared # Undefined
              /\ appended =
                   IF debugRuns.prepared[1].testToRun # ""
                   THEN << debugRuns.prepared[1].fileNameToRun, "--testNamePattern",
                           debugRuns.prepared[1].testToRun >>
                   ELSE << debugRuns.prepared[1].fileNameToRun >>

C28_OneShot == [][C28_OneShotStep]_vars /\ [](debugRuns.appended <= 1)

\* a configuration named 'vscode-jest-tests' has been resolved after another
\* one got the prepared names, and has got nothing appended
C28_Witness ==
  /\ returned.op = "resolveDebugConfiguration"
  /\ returned.name = "vscode-jest-tests"
  /\ returned.value.args = returned.args
  /\ debugRuns.appended = 1
  /\ debugRuns.prepared # Undefined
  /\ debugRuns.prepared[1].fileNameToRun # ""
  /\ debugRuns.prepared[1].testToRun # ""

\* the indices at which a maximal run of lenses on consecutive lines with the
\* same title starts
RunStarts(codelenses) ==
  {i \in DOMAIN codelenses :
     \/ i = 1
     \/ codelenses[i - 1].title # codelenses[i].title
     \/ codelenses[i - 1].line # codelenses[i].line - 1}

\* C29: Code-lens compression keeps every run.  For every list of per-line
\* code lenses in ascending line order, compressCodeLenses returns exactly one
\* code lens per maximal run of lenses on consecutive lines with the same
\* title, in order, with the run's title and on the first line of the run, the
\* last run of the list included; a non-empty list never gives an empty one.
C29_KeepsEveryRun ==
  returned.op = "compressCodeLenses" =>
    LET codelenses == returned.codelenses
        value == returned.value
        starts == RunStarts(codelenses)
    IN /\ Len(value) = Cardinality(starts)
       /\ \A k \in DOMAIN value :
            \E i \in starts :
              /\ Cardinality({j \in starts : j < i}) = k - 1
              /\ value[k] = codelenses[i]
       /\ codelenses # << >> => value # << >>

====
